---- MODULE Spec2Model ----
(***************************************************************************)
(* libpu8: UTF-8 <-> UTF-16 codec (u8widen / u8narrow), the lead-byte      *)
(* classifier (num_succeeding_bytes), the console output buffer            *)
(* (U8ConsoleOstreamBufWin32::sync), the console input buffer              *)
(* (U8ConsoleIstreamBufWin32::underflow) and the stream fixers of          *)
(* main_utf8 (U8StdInStreamFixer, U8StdOutStreamFixer).                    *)
(*                                                                         *)
(* Bytes are integers 0..255, UTF-16 code units are integers 0..65535.     *)
(***************************************************************************)
EXTENDS Integers, Sequences, FiniteSets, TLC

VARIABLES
    m_unwritten_partial_bytes, \* U8ConsoleOstreamBufWin32: withheld tail
    strbuf,                    \* U8ConsoleOstreamBufWin32: std::stringbuf content, str()
    log,                       \* history: one record per sync() call
    writeOk,                   \* did the latest WriteConsoleW succeed
    input,                     \* the console's UTF-16 input (history, fixed)
    rpos,                      \* number of units of input already read
    m_buffer,                  \* U8ConsoleIstreamBufWin32: UTF-8 read window
    gptr,                      \* offset of gptr() in m_buffer; egptr() is Len(m_buffer)
    served,                    \* history: bytes handed to the caller
    lastFill,                  \* history: what the last underflow() did
    batchBytes,                \* history: u8narrow of every batch read, concatenated
    call,                      \* last call of a free function and its result
    streams                    \* std::cin, std::cout, std::cerr and their fixers

vars == <<m_unwritten_partial_bytes, strbuf, log, writeOk, input, rpos, m_buffer, gptr,
          served, lastFill, batchBytes, call, streams>>

outVars == <<m_unwritten_partial_bytes, strbuf, log, writeOk>>
inVars == <<input, rpos, m_buffer, gptr, served, lastFill, batchBytes>>

----------------------------------------------------------------------------
(* Bounds of the model. *)

MaxTotal == 4      \* bytes accepted by the output buffer in one run
MaxSyncs == 3      \* sync() calls in one run
MaxConsole == 3    \* UTF-16 units the console holds in one run
MaxCodecLen == 3   \* length of the inputs of u8widen / u8narrow

(* Program constants. *)

INT_MAX == 2147483647
WideBufferSize == 128      \* wchar_t wideBuffer[128]
ReplacementChar == 65533   \* U+FFFD

(* Alphabets the inputs are drawn from. *)

\* 'A', C3 (2-byte lead), E2 (3-byte lead), F0 (4-byte lead), A9 (continuation)
OutBytes == {65, 195, 226, 240, 169}
\* the same without the 4-byte lead
RecoverBytes == {65, 195, 226, 169}
\* OutBytes, NUL and FF (never valid in UTF-8)
CodecBytes == OutBytes \cup {0, 255}
\* NUL, 'A', U+20AC, a high surrogate (D83D), a low surrogate (DE00)
Units == {0, 65, 8364, 55357, 56832}
\* console input that fills wideBuffer: WideBufferSize units of 'A' with a
\* surrogate pair across the end of the first request
LongInputs ==
    {[i \in 1..WideBufferSize |->
        CASE i = WideBufferSize - 2 -> 55357
          [] i = WideBufferSize - 1 -> 56832
          [] OTHER -> 65]}

SeqsUpTo(S, n) == UNION {[1..k -> S] : k \in 0..n}

RECURSIVE Concat(_)
Concat(ss) == IF ss = <<>> THEN <<>> ELSE Head(ss) \o Concat(Tail(ss))

Last(s) == s[Len(s)]

----------------------------------------------------------------------------
(* The platform converters, as documented for CP_UTF8: well-formed         *)
(* sequences are converted; an ill-formed one makes the call fail (return  *)
(* 0) with the *_ERR_INVALID_CHARS flag and is replaced by U+FFFD without. *)

IsCont(b) == b \div 64 = 2

\* code point of the n-byte sequence at s[i]
CodePointAt(s, i, n) ==
    CASE n = 1 -> s[i]
      [] n = 2 -> (s[i] % 32) * 64 + (s[i+1] % 64)
      [] n = 3 -> (s[i] % 16) * 4096 + (s[i+1] % 64) * 64 + (s[i+2] % 64)
      [] n = 4 -> (s[i] % 8) * 262144 + (s[i+1] % 64) * 4096
                    + (s[i+2] % 64) * 64 + (s[i+3] % 64)

\* length of the well-formed UTF-8 sequence starting at s[i], 0 if none
U8SeqLenAt(s, i) ==
    LET b == s[i]
        conts(n) == i + n <= Len(s) /\ \A j \in 1..n : IsCont(s[i+j])
    IN  CASE b < 128 -> 1
          [] b >= 194 /\ b <= 223 /\ conts(1) -> 2
          [] b >= 224 /\ b <= 239 /\ conts(2)
               /\ CodePointAt(s, i, 3) >= 2048
               /\ ~(CodePointAt(s, i, 3) \in 55296..57343) -> 3
          [] b >= 240 /\ b <= 244 /\ conts(3)
               /\ CodePointAt(s, i, 4) >= 65536
               /\ CodePointAt(s, i, 4) <= 1114111 -> 4
          [] OTHER -> 0

IsHighSurrogate(u) == u >= 55296 /\ u <= 56319
IsLowSurrogate(u) == u >= 56320 /\ u <= 57343

\* UTF-16 encoding of a code point
EncodeUtf16(cp) ==
    IF cp < 65536 THEN <<cp>>
    ELSE <<55296 + ((cp - 65536) \div 1024), 56320 + ((cp - 65536) % 1024)>>

\* UTF-8 encoding of a code point
EncodeUtf8(cp) ==
    CASE cp < 128 -> <<cp>>
      [] cp >= 128 /\ cp < 2048 -> <<192 + (cp \div 64), 128 + (cp % 64)>>
      [] cp >= 2048 /\ cp < 65536 ->
            <<224 + (cp \div 4096), 128 + ((cp \div 64) % 64), 128 + (cp % 64)>>
      [] OTHER ->
            <<240 + (cp \div 262144), 128 + ((cp \div 4096) % 64),
              128 + ((cp \div 64) % 64), 128 + (cp % 64)>>

RECURSIVE MbToWc(_, _, _)
\* [ok, out]: conversion of s[i..]; ok is FALSE when errInvalid and s is ill-formed
MbToWc(s, i, errInvalid) ==
    IF i > Len(s) THEN [ok |-> TRUE, out |-> <<>>]
    ELSE LET n == U8SeqLenAt(s, i)
             rest == MbToWc(s, i + (IF n = 0 THEN 1 ELSE n), errInvalid)
         IN  IF n = 0 /\ errInvalid THEN [ok |-> FALSE, out |-> <<>>]
             ELSE [ok |-> rest.ok,
                   out |-> IF rest.ok
                           THEN (IF n = 0 THEN <<ReplacementChar>>
                                 ELSE EncodeUtf16(CodePointAt(s, i, n))) \o rest.out
                           ELSE <<>>]

\* MultiByteToWideChar(CP_UTF8, flags, s, len, ...): the converted units;
\* the returned count is their number, 0 on failure
MultiByteToWideChar(s, errInvalid) == MbToWc(s, 1, errInvalid).out

\* number of units of the well-formed UTF-16 item at w[i], 0 for a lone surrogate
U16ItemLenAt(w, i) ==
    CASE IsHighSurrogate(w[i]) ->
            IF i + 1 <= Len(w) /\ IsLowSurrogate(w[i+1]) THEN 2 ELSE 0
      [] IsLowSurrogate(w[i]) -> 0
      [] OTHER -> 1

U16CodePointAt(w, i, n) ==
    IF n = 1 THEN w[i]
    ELSE 65536 + (w[i] - 55296) * 1024 + (w[i+1] - 56320)

\* the conversion of the item that starts at w[i]; the low half of a pair
\* belongs to the item of its high half
U16Piece(w, i, errInvalid) ==
    IF IsLowSurrogate(w[i]) /\ i > 1 /\ IsHighSurrogate(w[i-1])
    THEN [ok |-> TRUE, out |-> <<>>]
    ELSE LET n == U16ItemLenAt(w, i)
         IN  IF n = 0 /\ errInvalid THEN [ok |-> FALSE, out |-> <<>>]
             ELSE [ok |-> TRUE,
                   out |-> EncodeUtf8(IF n = 0 THEN ReplacementChar
                                      ELSE U16CodePointAt(w, i, n))]

\* the conversion of w[lo..hi], halving the range
RECURSIVE WcToMbRange(_, _, _, _)
WcToMbRange(w, lo, hi, errInvalid) ==
    IF lo > hi THEN [ok |-> TRUE, out |-> <<>>]
    ELSE IF lo = hi THEN U16Piece(w, lo, errInvalid)
    ELSE LET mid == (lo + hi) \div 2
             a == WcToMbRange(w, lo, mid, errInvalid)
             b == WcToMbRange(w, mid + 1, hi, errInvalid)
         IN  [ok |-> a.ok /\ b.ok,
              out |-> IF a.ok /\ b.ok THEN a.out \o b.out ELSE <<>>]

WcToMb(w, i, errInvalid) == WcToMbRange(w, i, Len(w), errInvalid)

\* WideCharToMultiByte(CP_UTF8, flags, w, len, ...): the converted bytes
WideCharToMultiByte(w, errInvalid) == WcToMb(w, 1, errInvalid).out

\* well-formedness, as the converters judge it
\* (every byte starts a well-formed sequence or lies inside the one that
\* starts up to three bytes before it)
WellFormedUtf8(s) ==
    \A i \in 1..Len(s) :
        \/ U8SeqLenAt(s, i) > 0
        \/ \E j \in 1..(i - 1) : i - j <= 3 /\ U8SeqLenAt(s, j) > i - j
WellFormedUtf16(w) == WcToMb(w, 1, TRUE).ok

----------------------------------------------------------------------------
(* The codec.  s is the data behind the pointer, len the length argument;  *)
(* the result is [threw, value].                                           *)

u8widen(s, len, throw_on_inv_chars) ==
    IF len = 0 THEN [threw |-> FALSE, value |-> <<>>]
    ELSE IF len < INT_MAX
              /\ Len(MultiByteToWideChar(SubSeq(s, 1, len), throw_on_inv_chars)) > 0
         THEN [threw |-> FALSE,
               value |-> MultiByteToWideChar(SubSeq(s, 1, len), throw_on_inv_chars)]
         ELSE [threw |-> TRUE, value |-> <<>>]

u8narrow(s, len, throw_on_inv_chars) ==
    IF len = 0 THEN [threw |-> FALSE, value |-> <<>>]
    ELSE IF len < INT_MAX
              /\ Len(WideCharToMultiByte(SubSeq(s, 1, len), throw_on_inv_chars)) > 0
         THEN [threw |-> FALSE,
               value |-> WideCharToMultiByte(SubSeq(s, 1, len), throw_on_inv_chars)]
         ELSE [threw |-> TRUE, value |-> <<>>]

\* does u8widen / u8narrow reach the platform converter with this length
calls_converter(len) == len # 0 /\ len < INT_MAX

\* mutant: conversions are lenient by default
u8_default_throw_Lenient == FALSE

u8_default_throw == TRUE

\* std::wcslen: number of units before the first NUL of a terminated buffer
wcslen(w) ==
    IF \E i \in 1..Len(w) : w[i] = 0
    THEN (CHOOSE i \in 1..Len(w) : w[i] = 0 /\ \A j \in 1..(i - 1) : w[j] # 0) - 1
    ELSE Len(w)

\* u8narrow(const wchar_t* s, bool throw_on_inv_chars = u8_default_throw)
u8narrow_cstr(w, throw_on_inv_chars) == u8narrow(w, wcslen(w), throw_on_inv_chars)

----------------------------------------------------------------------------
(* The classifier. *)

\* TRUE when the call runs into assert(false)
num_succeeding_bytes_asserts(c) == (c \div 32) \in {4, 5}

\* the value returned (in a build without assertions for a continuation byte)
num_succeeding_bytes(c) ==
    CASE (c \div 32) \in {0, 1, 2, 3} -> 0
      [] (c \div 32) \in {4, 5} -> 0
      [] (c \div 32) = 6 -> 1
      [] (c \div 32) = 7 -> IF (c \div 32) % 2 = 1 THEN 3 ELSE 2

is_utf8_continuation(c) == (c \div 64) = 2
is_utf8_leading(c) == (c \div 64) = 3

\* mutant: an if in place of the while loop
TrailingContinuations_Once(s, r) ==
    IF r < Len(s) /\ is_utf8_continuation(s[Len(s) - r]) THEN r + 1 ELSE r

RECURSIVE TrailingContinuations(_, _)
\* the while loop of num_trailing_partial_bytes, started with result = r
TrailingContinuations(s, r) ==
    IF r < Len(s) /\ is_utf8_continuation(s[Len(s) - r])
    THEN TrailingContinuations(s, r + 1)
    ELSE r

\* mutant: the test for a trailing lead byte is missing
num_trailing_partial_bytes_NoLeadTest(s) ==
    IF s = <<>> THEN 0
    ELSE LET result == TrailingContinuations(s, 0)
         IN  IF result > 0 /\ result < Len(s)
             THEN IF num_succeeding_bytes(s[Len(s) - result]) = result
                  THEN 0
                  ELSE result + 1
             ELSE result

\* mutant: the lead byte of an incomplete sequence is not withheld
num_trailing_partial_bytes_NoIncrement(s) ==
    IF s = <<>> THEN 0
    ELSE IF is_utf8_leading(Last(s)) THEN 1
    ELSE LET result == TrailingContinuations(s, 0)
         IN  IF result > 0 /\ result < Len(s)
             THEN IF num_succeeding_bytes(s[Len(s) - result]) = result
                  THEN 0
                  ELSE result
             ELSE result

num_trailing_partial_bytes(s) ==
    IF s = <<>> THEN 0
    ELSE IF is_utf8_leading(Last(s)) THEN 1
    ELSE LET result == TrailingContinuations(s, 0)
         IN  IF result > 0 /\ result < Len(s)
             THEN IF num_succeeding_bytes(s[Len(s) - result]) = result
                  THEN 0
                  ELSE result + 1
             ELSE result

\* the bytes num_trailing_partial_bytes(s) passes to num_succeeding_bytes
classifier_args(s) ==
    IF s = <<>> \/ is_utf8_leading(Last(s)) THEN {}
    ELSE LET result == TrailingContinuations(s, 0)
         IN  IF result > 0 /\ result < Len(s) THEN {s[Len(s) - result]} ELSE {}

----------------------------------------------------------------------------
(* The console output buffer. *)

\* mutant: the early return on an empty buffer is missing
sync_result_NoEmptyTest(pending, str) ==
    LET buffer == pending \o str
        partial_trailing == num_trailing_partial_bytes(buffer)
        tail == SubSeq(buffer, Len(buffer) - partial_trailing + 1, Len(buffer))
        resized == SubSeq(buffer, 1, Len(buffer) - partial_trailing)
        wide == u8widen(resized, Len(resized), u8_default_throw)
    IN  IF wide.threw
        THEN [chunk |-> str, tail |-> tail, widened |-> TRUE, handed |-> resized,
              threw |-> TRUE, nwrites |-> 0, wrote |-> <<>>, ret |-> -1]
        ELSE [chunk |-> str, tail |-> tail, widened |-> TRUE, handed |-> resized,
              threw |-> FALSE, nwrites |-> 1, wrote |-> wide.value, ret |-> 0]

\* mutant: the withheld tail is not put in front of the new bytes
sync_result_ForgetsTail(pending, str) ==
    LET buffer == str
        partial_trailing == num_trailing_partial_bytes(buffer)
        tail == SubSeq(buffer, Len(buffer) - partial_trailing + 1, Len(buffer))
        resized == SubSeq(buffer, 1, Len(buffer) - partial_trailing)
        wide == u8widen(resized, Len(resized), u8_default_throw)
    IN  IF resized = <<>>
        THEN [chunk |-> str, tail |-> tail, widened |-> FALSE, handed |-> <<>>,
              threw |-> FALSE, nwrites |-> 0, wrote |-> <<>>, ret |-> 0]
        ELSE IF wide.threw
        THEN [chunk |-> str, tail |-> tail, widened |-> TRUE, handed |-> resized,
              threw |-> TRUE, nwrites |-> 0, wrote |-> <<>>, ret |-> -1]
        ELSE [chunk |-> str, tail |-> tail, widened |-> TRUE, handed |-> resized,
              threw |-> FALSE, nwrites |-> 1, wrote |-> wide.value, ret |-> 0]

\* what sync() does with the withheld tail `pending` and the stringbuf content
\* `str`; ret is the value returned, -1 standing for none (the call threw)
sync_result(pending, str) ==
    LET buffer == pending \o str
        partial_trailing == num_trailing_partial_bytes(buffer)
        tail == SubSeq(buffer, Len(buffer) - partial_trailing + 1, Len(buffer))
        resized == SubSeq(buffer, 1, Len(buffer) - partial_trailing)
        wide == u8widen(resized, Len(resized), u8_default_throw)
    IN  IF resized = <<>>
        THEN [chunk |-> str, tail |-> tail, widened |-> FALSE, handed |-> <<>>,
              threw |-> FALSE, nwrites |-> 0, wrote |-> <<>>, ret |-> 0]
        ELSE IF wide.threw
        THEN [chunk |-> str, tail |-> tail, widened |-> TRUE, handed |-> resized,
              threw |-> TRUE, nwrites |-> 0, wrote |-> <<>>, ret |-> -1]
        ELSE [chunk |-> str, tail |-> tail, widened |-> TRUE, handed |-> resized,
              threw |-> FALSE, nwrites |-> 1, wrote |-> wide.value, ret |-> 0]

\* all bytes the buffer has accepted so far
Accepted == Concat([i \in 1..Len(log) |-> log[i].chunk]) \o strbuf

\* std::stringbuf::sputc: the stream puts one byte into the stringbuf
sputc(b) ==
    /\ strbuf' = Append(strbuf, b)
    /\ UNCHANGED <<m_unwritten_partial_bytes, log, writeOk>>

\* mutant: a failed write keeps the buffer and the tail for another attempt
sync_KeepsOnFailure ==
    LET r == sync_result(m_unwritten_partial_bytes, strbuf)
    IN     /\ log' = Append(log, r)
           /\ IF r.nwrites = 1
              THEN \E wok \in BOOLEAN :
                      /\ writeOk' = wok
                      /\ m_unwritten_partial_bytes' =
                            IF wok THEN r.tail ELSE m_unwritten_partial_bytes
                      /\ strbuf' = IF wok THEN <<>> ELSE strbuf
              ELSE /\ UNCHANGED writeOk
                   /\ m_unwritten_partial_bytes' = r.tail
                   /\ strbuf' = <<>>

\* U8ConsoleOstreamBufWin32::sync; WriteConsoleW, when called, succeeds or
\* fails (wok), and its result is ignored
sync ==
    LET r == sync_result(m_unwritten_partial_bytes, strbuf)
    IN     /\ m_unwritten_partial_bytes' = r.tail
           /\ strbuf' = <<>>
           /\ log' = Append(log, r)
           /\ IF r.nwrites = 1
              THEN \E wok \in BOOLEAN : writeOk' = wok
              ELSE UNCHANGED writeOk

OutInit ==
    /\ m_unwritten_partial_bytes = <<>>
    /\ strbuf = <<>>
    /\ log = <<>>
    /\ writeOk = TRUE

----------------------------------------------------------------------------
(* The stream fixers of main_utf8. *)

StdStreams == {"cin", "cout", "cerr"}

\* what a standard handle is attached to: a console window, another
\* character device (NUL, a serial or parallel port), a disk file, a pipe
Handles == {"console", "device", "disk", "pipe"}

\* ::GetFileType(::GetStdHandle(handleId))
GetFileType(h) ==
    CASE h \in {"console", "device"} -> "FILE_TYPE_CHAR"
      [] h = "disk" -> "FILE_TYPE_DISK"
      [] OTHER -> "FILE_TYPE_PIPE"

\* a standard stream before wmain: its own buffer, no fixer; dirty says
\* that the current buffer holds output not yet flushed, events lists what
\* the fixer did to the stream
FreshStream(h) ==
    [handle |-> h, rdbuf |-> "original", m_sb_backup |-> "nullptr",
     fixer |-> "none", dirty |-> FALSE, events |-> <<>>]

\* U8StdInStreamFixer::U8StdInStreamFixer
U8StdInStreamFixer(st) ==
    IF GetFileType(st.handle) = "FILE_TYPE_CHAR"
    THEN [st EXCEPT !.fixer = "alive", !.m_sb_backup = st.rdbuf, !.rdbuf = "m_csb",
                    !.events = Append(@, "install")]
    ELSE [st EXCEPT !.fixer = "alive"]

\* U8StdInStreamFixer::~U8StdInStreamFixer
U8StdInStreamFixer_dtor(st) ==
    IF st.m_sb_backup # "nullptr"
    THEN [st EXCEPT !.fixer = "gone", !.rdbuf = st.m_sb_backup,
                    !.events = Append(@, "restore")]
    ELSE [st EXCEPT !.fixer = "gone"]

\* U8StdOutStreamFixer::U8StdOutStreamFixer
U8StdOutStreamFixer(st) ==
    IF GetFileType(st.handle) = "FILE_TYPE_CHAR"
    THEN [st EXCEPT !.fixer = "alive", !.dirty = FALSE, !.m_sb_backup = st.rdbuf,
                    !.rdbuf = "m_csb",
                    !.events = @ \o <<"flush " \o st.rdbuf, "install">>]
    ELSE [st EXCEPT !.fixer = "alive"]

\* U8StdOutStreamFixer::~U8StdOutStreamFixer
U8StdOutStreamFixer_dtor(st) ==
    IF st.m_sb_backup # "nullptr"
    THEN [st EXCEPT !.fixer = "gone", !.dirty = FALSE, !.rdbuf = st.m_sb_backup,
                    !.events = @ \o <<"flush " \o st.rdbuf, "restore">>]
    ELSE [st EXCEPT !.fixer = "gone"]

\* the three streams attached to a console, inside main_utf8_
ConsoleStreams ==
    [s \in StdStreams |->
        IF s = "cin" THEN U8StdInStreamFixer(FreshStream("console"))
        ELSE U8StdOutStreamFixer(FreshStream("console"))]

Fixer(s) == streams[s].fixer

\* wmain: U8StdInStreamFixer cinfix(STD_INPUT_HANDLE, std::cin)
cinfix ==
    /\ Fixer("cin") = "none"
    /\ streams' = [streams EXCEPT !["cin"] = U8StdInStreamFixer(@)]

\* wmain: U8StdOutStreamFixer coutfix(STD_OUTPUT_HANDLE, std::cout)
coutfix ==
    /\ Fixer("cin") = "alive" /\ Fixer("cout") = "none"
    /\ streams' = [streams EXCEPT !["cout"] = U8StdOutStreamFixer(@)]

\* wmain: U8StdOutStreamFixer cerrfix(STD_ERROR_HANDLE, std::cerr)
cerrfix ==
    /\ Fixer("cout") = "alive" /\ Fixer("cerr") = "none"
    /\ streams' = [streams EXCEPT !["cerr"] = U8StdOutStreamFixer(@)]

\* main_utf8_ writes to an output stream without flushing it
write(s) ==
    /\ \A n \in StdStreams : Fixer(n) = "alive"
    /\ ~streams[s].dirty
    /\ streams' = [streams EXCEPT ![s].dirty = TRUE]

\* end of wmain: the fixers are destroyed in reverse order
cerrfix_dtor ==
    /\ \A n \in StdStreams : Fixer(n) = "alive"
    /\ streams' = [streams EXCEPT !["cerr"] = U8StdOutStreamFixer_dtor(@)]

coutfix_dtor ==
    /\ Fixer("cerr") = "gone" /\ Fixer("cout") = "alive"
    /\ streams' = [streams EXCEPT !["cout"] = U8StdOutStreamFixer_dtor(@)]

cinfix_dtor ==
    /\ Fixer("cout") = "gone" /\ Fixer("cin") = "alive"
    /\ streams' = [streams EXCEPT !["cin"] = U8StdInStreamFixer_dtor(@)]

----------------------------------------------------------------------------
(* The console input buffer. *)

EOF_ == -1

Min(a, b) == IF a < b THEN a ELSE b

NoFill == [kind |-> "none", readOk |-> TRUE, readSize |-> 0, extraIssued |-> FALSE,
           extraGot |-> FALSE, batch |-> <<>>, threw |-> FALSE, ret |-> EOF_,
           requested |-> 0, extraIndex |-> -1, termIndex |-> -1, unread |-> 0]

\* mutant: no room is reserved for the extra unit and the terminator
ReadRequest_NoReserve == WideBufferSize

\* the number of units the first ReadConsoleW asks for
ReadRequest == WideBufferSize - 2

\* mutant: the extra read after a high surrogate is missing
fill_NoExtraRead(ok, k, eok, e) ==
    IF ~ok
    THEN /\ lastFill' = [NoFill EXCEPT !.kind = "fill", !.readOk = FALSE,
                                       !.requested = ReadRequest,
                                       !.unread = Len(m_buffer) - gptr]
         /\ UNCHANGED <<rpos, m_buffer, gptr, batchBytes>>
    ELSE LET needExtra == FALSE
             got == needExtra /\ eok /\ e = 1
             readSize == IF got THEN k + 1 ELSE k
             batch == SubSeq(input, rpos + 1, rpos + readSize)
             wideBuffer == batch \o <<0>>
             r == u8narrow_cstr(wideBuffer, u8_default_throw)
             rec == [kind |-> "fill", readOk |-> TRUE, readSize |-> k,
                     extraIssued |-> needExtra, extraGot |-> got,
                     batch |-> batch, threw |-> r.threw, ret |-> EOF_,
                     requested |-> ReadRequest,
                     extraIndex |-> IF needExtra THEN k ELSE -1,
                     termIndex |-> readSize,
                     unread |-> Len(m_buffer) - gptr]
         IN  /\ rpos' = rpos + readSize
             /\ batchBytes' = batchBytes \o u8narrow(batch, Len(batch), TRUE).value
             /\ IF r.threw
                THEN /\ UNCHANGED <<m_buffer, gptr>>
                     /\ lastFill' = rec
                ELSE /\ m_buffer' = r.value
                     /\ gptr' = 0
                     /\ lastFill' = [rec EXCEPT !.ret = IF r.value = <<>> THEN EOF_
                                                        ELSE r.value[1]]

\* the refill branch of underflow(): the first ReadConsoleW succeeds or not
\* (ok) and delivers k units, the extra one succeeds or not (eok) and
\* delivers e units.  requested, extraIndex and termIndex record the size of
\* the first request and the indices of wideBuffer that the extra read and
\* the terminator write to (-1: none); unread is the number of bytes left in
\* the window when the read is issued.
fill(ok, k, eok, e) ==
    IF ~ok
    THEN /\ lastFill' = [NoFill EXCEPT !.kind = "fill", !.readOk = FALSE,
                                       !.requested = ReadRequest,
                                       !.unread = Len(m_buffer) - gptr]
         /\ UNCHANGED <<rpos, m_buffer, gptr, batchBytes>>
    ELSE LET needExtra == k > 0 /\ IsHighSurrogate(input[rpos + k])
             got == needExtra /\ eok /\ e = 1
             readSize == IF got THEN k + 1 ELSE k
             batch == SubSeq(input, rpos + 1, rpos + readSize)
             wideBuffer == batch \o <<0>>
             r == u8narrow_cstr(wideBuffer, u8_default_throw)
             rec == [kind |-> "fill", readOk |-> TRUE, readSize |-> k,
                     extraIssued |-> needExtra, extraGot |-> got,
                     batch |-> batch, threw |-> r.threw, ret |-> EOF_,
                     requested |-> ReadRequest,
                     extraIndex |-> IF needExtra THEN k ELSE -1,
                     termIndex |-> readSize,
                     unread |-> Len(m_buffer) - gptr]
         IN  /\ rpos' = rpos + readSize
             /\ batchBytes' = batchBytes \o u8narrow(batch, Len(batch), TRUE).value
             /\ IF r.threw
                THEN /\ UNCHANGED <<m_buffer, gptr>>
                     /\ lastFill' = rec
                ELSE /\ m_buffer' = r.value
                     /\ gptr' = 0
                     /\ lastFill' = [rec EXCEPT !.ret = IF r.value = <<>> THEN EOF_
                                                        ELSE r.value[1]]

\* the numbers of units a read of up to n units can deliver when avail are
\* left: any number when few are left, else none, one or as many as possible
ReadCounts(n, avail) ==
    {k \in 0..Min(n, avail) : avail <= MaxConsole \/ k \in {0, 1, Min(n, avail)}}

\* U8ConsoleIstreamBufWin32::underflow
underflow ==
    /\ IF gptr >= Len(m_buffer)
       THEN \E ok \in BOOLEAN, k \in ReadCounts(ReadRequest, Len(input) - rpos),
               eok \in BOOLEAN, e \in 0..1 :
                /\ rpos + k + e <= Len(input)
                /\ fill(ok, k, eok, e)
       ELSE /\ lastFill' = [NoFill EXCEPT !.kind = "peek", !.ret = m_buffer[gptr + 1]]
            /\ UNCHANGED <<rpos, m_buffer, gptr, batchBytes>>
    /\ UNCHANGED <<input, served>>

\* std::streambuf::sbumpc on a non-empty get area: the caller takes one byte
sbumpc ==
    /\ gptr < Len(m_buffer)
    /\ served' = Append(served, m_buffer[gptr + 1])
    /\ gptr' = gptr + 1
    /\ UNCHANGED <<input, rpos, m_buffer, lastFill, batchBytes>>

InInit(inputs) ==
    /\ input \in inputs
    /\ rpos = 0
    /\ m_buffer = <<>>
    /\ gptr = 0
    /\ served = <<>>
    /\ lastFill = NoFill
    /\ batchBytes = <<>>

----------------------------------------------------------------------------
(* Calls of the free functions. *)

NoCall == [fn |-> "none", arg |-> <<>>, len |-> 0, strict |-> TRUE,
           threw |-> FALSE, asserted |-> FALSE, ret |-> <<>>, num |-> 0,
           converter |-> FALSE]

\* each run of SpecCodec makes one call
Idle == call.fn = "none"

\* the lengths a caller can pass: that of s, or INT_MAX for data of which s
\* is only the beginning
Lens(s) == IF s = <<>> THEN {0} ELSE {Len(s), INT_MAX}

call_u8widen ==
    /\ Idle
    /\ \E s \in SeqsUpTo(CodecBytes, MaxCodecLen), strict \in BOOLEAN :
      \E len \in Lens(s) :
        call' = [NoCall EXCEPT !.fn = "u8widen", !.arg = s, !.len = len,
                               !.strict = strict,
                               !.threw = u8widen(s, len, strict).threw,
                               !.ret = u8widen(s, len, strict).value]

call_u8narrow ==
    /\ Idle
    /\ \E w \in SeqsUpTo(Units, MaxCodecLen), strict \in BOOLEAN :
      \E len \in Lens(w) :
        call' = [NoCall EXCEPT !.fn = "u8narrow", !.arg = w, !.len = len,
                               !.strict = strict,
                               !.threw = u8narrow(w, len, strict).threw,
                               !.ret = u8narrow(w, len, strict).value]

\* u8narrow(u8widen(s, true), true), through the std::string and
\* std::wstring overloads; a throw of either call ends the evaluation
roundtrip(s, len) ==
    LET wide == u8widen(s, len, TRUE)
        back == u8narrow(wide.value, Len(wide.value), TRUE)
    IN  IF wide.threw THEN [threw |-> TRUE, value |-> <<>>,
                            converter |-> calls_converter(len)]
        ELSE [threw |-> back.threw, value |-> back.value,
              converter |-> calls_converter(len) \/ calls_converter(Len(wide.value))]

call_roundtrip ==
    /\ Idle
    /\ \E s \in SeqsUpTo(CodecBytes, MaxCodecLen) :
      \E len \in Lens(s) :
        call' = [NoCall EXCEPT !.fn = "roundtrip", !.arg = s, !.len = len,
                               !.threw = roundtrip(s, len).threw,
                               !.ret = roundtrip(s, len).value,
                               !.converter = roundtrip(s, len).converter]

call_num_succeeding_bytes ==
    /\ Idle
    /\ \E c \in 0..255 :
        call' = [NoCall EXCEPT !.fn = "num_succeeding_bytes", !.arg = <<c>>, !.len = 1,
                               !.asserted = num_succeeding_bytes_asserts(c),
                               !.num = num_succeeding_bytes(c)]

call_num_trailing_partial_bytes ==
    /\ Idle
    /\ \E s \in SeqsUpTo(OutBytes, MaxCodecLen + 1) :
        call' = [NoCall EXCEPT !.fn = "num_trailing_partial_bytes", !.arg = s,
                               !.len = Len(s),
                               !.num = num_trailing_partial_bytes(s)]

----------------------------------------------------------------------------
(* Specifications: the output buffer, the input buffer, the free functions. *)

OutSpecInit == OutInit /\ InInit({<<>>}) /\ call = NoCall /\ streams = ConsoleStreams
\* a run accepts at most maxTotal bytes of the alphabet and syncs at most
\* maxSyncs times
OutRun(bytes, maxTotal, maxSyncs) ==
    \/ /\ Len(Accepted) < maxTotal
       /\ \E b \in bytes : sputc(b)
       /\ UNCHANGED <<inVars, call, streams>>
    \/ /\ Len(log) < maxSyncs
       /\ sync
       /\ UNCHANGED <<inVars, call, streams>>
OutNext == OutRun(OutBytes, MaxTotal, MaxSyncs)
SpecOut == OutSpecInit /\ [][OutNext]_vars

\* longer runs of the output buffer, with one sync less, over the bytes of
\* the one-, two- and three-byte characters
RecoverNext == OutRun(RecoverBytes, MaxTotal + 1, MaxSyncs - 1)
SpecRecover == OutSpecInit /\ [][RecoverNext]_vars

InSpecInit ==
    OutInit /\ InInit(SeqsUpTo(Units, MaxConsole) \cup LongInputs) /\ call = NoCall /\ streams = ConsoleStreams
InNext ==
    \/ underflow /\ UNCHANGED <<outVars, call, streams>>
    \/ sbumpc /\ UNCHANGED <<outVars, call, streams>>
SpecIn == InSpecInit /\ [][InNext]_vars

\* a program with nothing to read that uses both buffers, or one that only
\* reads: shorter runs of each buffer
IOInit == OutInit /\ InInit(SeqsUpTo(Units, MaxConsole - 1)) /\ call = NoCall /\ streams = ConsoleStreams
IONext ==
    \/ input = <<>> /\ OutRun(OutBytes, MaxTotal - 1, MaxSyncs - 1)
    \/ (input = <<>> \/ (log = <<>> /\ strbuf = <<>>)) /\ InNext
SpecIO == IOInit /\ [][IONext]_vars

CodecInit == OutInit /\ InInit({<<>>}) /\ call = NoCall /\ streams = ConsoleStreams
CodecNext ==
    \/ call_u8widen /\ UNCHANGED <<outVars, inVars, streams>>
    \/ call_u8narrow /\ UNCHANGED <<outVars, inVars, streams>>
    \/ call_roundtrip /\ UNCHANGED <<outVars, inVars, streams>>
    \/ call_num_succeeding_bytes /\ UNCHANGED <<outVars, inVars, streams>>
    \/ call_num_trailing_partial_bytes /\ UNCHANGED <<outVars, inVars, streams>>
SpecCodec == CodecInit /\ [][CodecNext]_vars

\* wmain from its first statement to its return, for every attachment of
\* the three standard handles
FixInit ==
    /\ OutInit /\ InInit({<<>>}) /\ call = NoCall
    /\ streams \in [StdStreams -> {FreshStream(h) : h \in Handles}]
FixNext ==
    \/ cinfix /\ UNCHANGED <<outVars, inVars, call>>
    \/ coutfix /\ UNCHANGED <<outVars, inVars, call>>
    \/ cerrfix /\ UNCHANGED <<outVars, inVars, call>>
    \/ (\E s \in {"cout", "cerr"} : write(s)) /\ UNCHANGED <<outVars, inVars, call>>
    \/ cerrfix_dtor /\ UNCHANGED <<outVars, inVars, call>>
    \/ coutfix_dtor /\ UNCHANGED <<outVars, inVars, call>>
    \/ cinfix_dtor /\ UNCHANGED <<outVars, inVars, call>>
SpecFix == FixInit /\ [][FixNext]_vars

----------------------------------------------------------------------------
(* Vocabulary of the properties: UTF-8 as the standard defines it. *)

\* continuation bytes a lead byte of the standard demands, -1 for any other byte
LeadClass(b) ==
    CASE b >= 192 /\ b <= 223 -> 1
      [] b >= 224 /\ b <= 239 -> 2
      [] b >= 240 /\ b <= 247 -> 3
      [] OTHER -> -1

\* continuation bytes at the borders of every range the standard distinguishes
BorderConts == {128, 143, 144, 159, 160, 191}

\* p is the whole of one well-formed multi-byte sequence
IsMultiByteSeq(p) == Len(p) >= 2 /\ U8SeqLenAt(p, 1) = Len(p)

\* the non-empty runs of at most three such continuation bytes
BorderExts == SeqsUpTo(BorderConts, 3) \ {<<>>}

\* p is a non-empty strict prefix of some well-formed multi-byte sequence
StrictPrefixOfSeq(p) ==
    /\ p # <<>>
    /\ Len(p) <= 3
    /\ LeadClass(p[1]) >= Len(p)
    /\ \E ext \in BorderExts : U8SeqLenAt(p \o ext, 1) = Len(p) + Len(ext)

\* s is a prefix of some well-formed UTF-8 string
ValidPrefix(s) ==
    \E t \in 0..Min(3, Len(s)) :
        /\ WellFormedUtf8(SubSeq(s, 1, Len(s) - t))
        /\ t > 0 => StrictPrefixOfSeq(SubSeq(s, Len(s) - t + 1, Len(s)))

\* the bytes accepted up to and including the i-th sync
AcceptedUpTo(i) == Concat([j \in 1..i |-> log[j].chunk])

\* the units of all terminal writes so far, in order
Written == Concat([j \in 1..Len(log) |-> log[j].wrote])

----------------------------------------------------------------------------
(* Properties of the output buffer (SpecOut). *)

\* C1: chunk-invariance.  Whenever the bytes accepted so far form a valid
\* UTF-8 string and all of them have been synced, in whatever chunks, the
\* concatenation of the terminal writes equals what one sync of the whole
\* string, starting from an empty tail, writes.
C1_ChunkInvariance ==
    (strbuf = <<>> /\ WellFormedUtf8(Accepted))
        => Written = sync_result(<<>>, Accepted).wrote

\* C1 witness: a two-byte character split over two non-empty chunks, written
\* by the second sync.
C1_Witness ==
    /\ Len(log) = 2 /\ strbuf = <<>>
    /\ log[1].chunk = <<195>> /\ log[2].chunk = <<169>>
    /\ Written = <<233>>

\* C2 (as claimed): a valid multi-byte sequence of n = 2, 3 or 4 bytes
\* delivered one byte per sync, starting from an empty tail, causes no write
\* before the sync of its last byte, and that sync performs exactly one write
\* of the UTF-16 encoding of the code point and leaves the tail empty.
C2_OneBytePerCall ==
    \A i \in 1..Len(log), n \in 2..4 :
        LET q == Concat([j \in 1..n |-> log[i + j - 1].chunk])
        IN  ( /\ i + n - 1 <= Len(log)
              /\ (i = 1 \/ log[i - 1].tail = <<>>)
              /\ \A j \in i..(i + n - 1) : Len(log[j].chunk) = 1
              /\ IsMultiByteSeq(q) )
            => /\ \A j \in i..(i + n - 2) : log[j].nwrites = 0
               /\ log[i + n - 1].nwrites = 1
               /\ log[i + n - 1].wrote = EncodeUtf16(CodePointAt(q, 1, n))
               /\ log[i + n - 1].tail = <<>>

\* C5: when the bytes accepted up to a sync are a prefix of valid UTF-8, what
\* that sync hands to u8widen consists of whole UTF-8 sequences only (it is
\* well-formed: it neither starts with a continuation byte nor ends inside a
\* sequence), and u8widen does not throw.  Stated of the latest sync; every
\* sync is the latest one in the state it leads to.
C5_OnlyWholeSequences ==
    (Len(log) >= 1 /\ Last(log).widened /\ ValidPrefix(AcceptedUpTo(Len(log))))
        => WellFormedUtf8(Last(log).handed) /\ ~Last(log).threw

\* C5 witness: a sync whose buffer ends inside a multi-byte sequence hands the
\* complete prefix to u8widen and withholds the rest.
C5_Witness ==
    /\ Len(log) >= 1
    /\ ValidPrefix(Accepted)
    /\ Last(log).widened
    /\ Last(log).tail # <<>>
    /\ LeadClass(Last(log).handed[1]) = 1

\* C6 (as claimed): after every sync, whatever bytes were accepted, the
\* withheld tail is shorter than 4 bytes and is empty or a strict prefix of
\* some valid multi-byte UTF-8 sequence.
C6_PendingTail ==
    /\ Len(m_unwritten_partial_bytes) < 4
    /\ m_unwritten_partial_bytes = <<>> \/ StrictPrefixOfSeq(m_unwritten_partial_bytes)

----------------------------------------------------------------------------
(* Properties of the free functions (SpecCodec). *)

\* C3 (as claimed): num_trailing_partial_bytes returns 0 for a buffer that
\* ends on an ASCII byte or exactly on a complete 2-, 3- or 4-byte sequence,
\* and at least 1 for a buffer that ends on a lead byte or on a lead byte
\* followed by fewer continuation bytes than it demands.
C3_TrailingIncomplete ==
    call.fn = "num_trailing_partial_bytes" =>
        LET s == call.arg
            endsComplete ==
                \E n \in 1..3 : /\ Len(s) > n
                                /\ LeadClass(s[Len(s) - n]) = n
                                /\ \A j \in 0..(n - 1) : IsCont(s[Len(s) - j])
            endsTruncated ==
                \E m \in 0..2 : /\ Len(s) > m
                                /\ LeadClass(s[Len(s) - m]) > m
                                /\ \A j \in 0..(m - 1) : IsCont(s[Len(s) - j])
        IN  /\ (s # <<>> /\ (Last(s) < 128 \/ endsComplete)) => call.num = 0
            /\ endsTruncated => call.num >= 1

\* C4 (as claimed): num_succeeding_bytes maps 0xxxxxxx to 0, 110xxxxx to 1,
\* 1110xxxx to 2 and 11110xxx to 3.
C4_Classifier ==
    call.fn = "num_succeeding_bytes" =>
        LET c == call.arg[1]
        IN  /\ c < 128 => call.num = 0
            /\ (c >= 192 /\ c <= 223) => call.num = 1
            /\ (c >= 224 /\ c <= 239) => call.num = 2
            /\ (c >= 240 /\ c <= 247) => call.num = 3

\* is the call a conversion of ill-formed input
IllFormedInput ==
    \/ call.fn = "u8widen" /\ ~WellFormedUtf8(call.arg)
    \/ call.fn = "u8narrow" /\ ~WellFormedUtf16(call.arg)

\* C9 (as claimed): on every non-empty input that contains an invalid
\* sequence, u8widen and u8narrow throw with throw_on_inv_chars = true, and
\* with false they return a non-empty result in which the invalid parts are
\* replaced by U+FFFD.
C9_StrictVersusLenient ==
    (call.len > 0 /\ IllFormedInput) =>
        /\ call.strict => call.threw
        /\ ~call.strict =>
              /\ ~call.threw
              /\ call.ret # <<>>
              /\ call.fn = "u8widen" => \E i \in 1..Len(call.ret) : call.ret[i] = ReplacementChar
              /\ call.fn = "u8narrow" => ~WellFormedUtf16(MultiByteToWideChar(call.ret, TRUE))
                                           \/ \E i \in 1..Len(MultiByteToWideChar(call.ret, TRUE)) :
                                                 MultiByteToWideChar(call.ret, TRUE)[i] = ReplacementChar

\* C10 (as claimed): whatever the length of the input, a call with
\* throw_on_inv_chars = false never throws, and a call with true on valid
\* input never throws.
C10_ThrowsOnlyStrictInvalid ==
    call.fn \in {"u8widen", "u8narrow"} =>
        /\ ~call.strict => ~call.threw
        /\ (call.strict /\ ~IllFormedInput) => ~call.threw

----------------------------------------------------------------------------
(* Properties of the input buffer (SpecIn). *)

\* the units of a batch that reach the converter: those before its first NUL
Converted(batch) == SubSeq(batch, 1, wcslen(batch \o <<0>>))

HasReplacement(bytes) ==
    \E i \in 1..Len(bytes) : i + 2 <= Len(bytes)
        /\ bytes[i] = 239 /\ bytes[i + 1] = 191 /\ bytes[i + 2] = 189

\* C7: surrogate-pair integrity.  When the console delivers well-formed
\* UTF-16 and the first read of a fill ends on a high surrogate, the fill
\* issues the extra single-unit read, and when that read delivers the batch
\* ends on the completed pair; a batch ends on a high surrogate only if the
\* extra read was issued and delivered nothing.  The window is always
\* well-formed UTF-8 (no dangling sequence at its end) without U+FFFD.
C7_SurrogateIntegrity ==
    /\ (WellFormedUtf16(input) /\ lastFill.kind = "fill" /\ lastFill.readOk) =>
          LET b == lastFill.batch
              k == lastFill.readSize
          IN  /\ (k > 0 /\ IsHighSurrogate(b[k])) => lastFill.extraIssued
              /\ lastFill.extraGot =>
                    Len(b) = k + 1 /\ IsHighSurrogate(b[k]) /\ IsLowSurrogate(b[k + 1])
              /\ (b # <<>> /\ IsHighSurrogate(Last(b))) =>
                    lastFill.extraIssued /\ ~lastFill.extraGot
    /\ WellFormedUtf8(m_buffer)
    /\ ~HasReplacement(m_buffer)

\* C7 witness: the first read ended between the two halves of a pair, the
\* extra read completed it, and the window holds the four-byte sequence.
C7_Witness ==
    /\ lastFill.kind = "fill" /\ lastFill.extraIssued /\ lastFill.extraGot
    /\ WellFormedUtf16(input)
    /\ Len(m_buffer) >= 4
    /\ U8SeqLenAt(m_buffer, Len(m_buffer) - 3) = 4

\* C8 (as claimed): fill converts leniently and never throws; a dangling
\* high surrogate left by a failed extra read is converted as it is, and an
\* empty window makes the call report end of stream.
C8_LenientFill ==
    (lastFill.kind = "fill" /\ lastFill.readOk) =>
        /\ ~lastFill.threw
        /\ m_buffer = u8narrow_cstr(lastFill.batch \o <<0>>, FALSE).value
        /\ m_buffer = <<>> => lastFill.ret = EOF_

\* C8 (amended): fill converts strictly (the default throw_on_inv_chars).
\* It throws exactly when the units that reach the converter contain an
\* unpaired surrogate, in particular when the batch ends in a high surrogate
\* whose extra read failed or delivered nothing (and no NUL precedes it), and
\* the window then stays exhausted.  Otherwise the window is the strict
\* conversion, and an empty window makes the call report end of stream.
C8_StrictFill ==
    (lastFill.kind = "fill" /\ lastFill.readOk) =>
        LET conv == Converted(lastFill.batch)
        IN  /\ lastFill.threw <=> ~WellFormedUtf16(conv)
            /\ (lastFill.extraIssued /\ ~lastFill.extraGot /\ conv = lastFill.batch)
                  => lastFill.threw
            /\ lastFill.threw => gptr >= Len(m_buffer) /\ lastFill.ret = EOF_
            /\ ~lastFill.threw =>
                  /\ m_buffer = WideCharToMultiByte(conv, TRUE)
                  /\ m_buffer = <<>> => lastFill.ret = EOF_

\* C8 witness: the extra read delivered nothing and the fill threw.
C8_Witness ==
    /\ lastFill.kind = "fill" /\ lastFill.readOk
    /\ lastFill.extraIssued /\ ~lastFill.extraGot
    /\ lastFill.threw

\* C11 (as claimed): for every valid UTF-8 byte sequence s the round trip
\* u8narrow(u8widen(s, true), true) returns s; for the empty sequence it does
\* so without calling the platform converter.
C11_RoundTrip ==
    (call.fn = "roundtrip" /\ WellFormedUtf8(call.arg)) =>
        /\ ~call.threw
        /\ call.ret = call.arg
        /\ call.arg = <<>> => ~call.converter

\* C14: never under-withholding.  For a buffer that is a prefix of valid
\* UTF-8 and ends inside a multi-byte sequence of which m bytes (1 <= m <=
\* 3) are present, num_trailing_partial_bytes returns at least m.
C14_NeverUnderWithholds ==
    call.fn = "num_trailing_partial_bytes" =>
        \A m \in 1..Min(3, Len(call.arg)) :
            ( /\ WellFormedUtf8(SubSeq(call.arg, 1, Len(call.arg) - m))
              /\ StrictPrefixOfSeq(SubSeq(call.arg, Len(call.arg) - m + 1, Len(call.arg))) )
            => call.num >= m

\* C14 witness: a complete character followed by two of the four bytes of
\* the next one; both bytes are withheld.
C14_Witness ==
    /\ call.fn = "num_trailing_partial_bytes"
    /\ call.arg = <<195, 169, 240, 169>>
    /\ call.num = 2

----------------------------------------------------------------------------
(* Further properties of the output buffer (SpecOut, SpecRecover). *)

\* the buffer the i-th sync built: the tail left by the previous one, then
\* the bytes accepted since
BufferOf(i) == (IF i = 1 THEN <<>> ELSE log[i - 1].tail) \o log[i].chunk

\* C16: a sync performs at most one terminal write, and neither converts
\* nor writes when nothing is left of its buffer once the tail is removed
\* (in particular when there are no new bytes and no tail).  Stated of the
\* latest sync.
C16_AtMostOneWrite ==
    Len(log) >= 1 =>
        LET r == Last(log)
        IN  /\ r.nwrites <= 1
            /\ Len(BufferOf(Len(log))) = Len(r.tail) => ~r.widened /\ r.nwrites = 0

\* C16 witness: a sync whose buffer is withheld whole, then a sync without
\* new bytes; neither writes.
C16_Witness ==
    /\ Len(log) = 2
    /\ log[1].chunk = <<195>> /\ log[1].nwrites = 0
    /\ log[2].chunk = <<>> /\ log[2].nwrites = 0 /\ ~log[2].widened

\* C17: byte conservation.  When no sync so far threw, the byte strings
\* handed to u8widen, in order, followed by the withheld tail are exactly the
\* bytes synced so far.
C17_ByteConservation ==
    (\A i \in 1..Len(log) : ~log[i].threw) =>
        Concat([i \in 1..Len(log) |-> log[i].handed]) \o m_unwritten_partial_bytes
            = AcceptedUpTo(Len(log))

\* C17 witness: two syncs that both handed bytes to u8widen, the first of
\* them leaving a tail for the second.
C17_Witness ==
    /\ Len(log) = 2
    /\ log[1].handed # <<>> /\ log[1].tail # <<>>
    /\ log[2].handed # <<>>
    /\ ~log[1].threw /\ ~log[2].threw

\* C18: whatever bytes a sync is given, num_trailing_partial_bytes passes no
\* continuation byte to num_succeeding_bytes, so the assertion of the
\* classifier is not reached.  Stated of the latest sync.
C18_ClassifierPrecondition ==
    Len(log) >= 1 =>
        \A c \in classifier_args(BufferOf(Len(log))) :
            ~is_utf8_continuation(c) /\ ~num_succeeding_bytes_asserts(c)

\* C18 witness: a sync of ill-formed bytes (a continuation byte after an
\* ASCII byte) that consulted the classifier.
C18_Witness ==
    /\ Len(log) >= 1
    /\ BufferOf(Len(log)) = <<65, 169>>
    /\ classifier_args(BufferOf(Len(log))) = {65}

\* C20 (as claimed): a sync that throws performs no write, and when it
\* leaves no tail (the next bytes start on a code-point boundary) a following
\* sync of a non-empty valid UTF-8 string does not throw and writes exactly
\* the code points of that string.
C20_RecoveryAfterThrow ==
    \A i \in 1..Len(log) :
        log[i].threw =>
            /\ log[i].nwrites = 0
            /\ ( /\ i < Len(log)
                 /\ log[i].tail = <<>>
                 /\ log[i + 1].chunk # <<>>
                 /\ WellFormedUtf8(log[i + 1].chunk) )
               => /\ ~log[i + 1].threw
                  /\ log[i + 1].nwrites = 1
                  /\ log[i + 1].wrote = MultiByteToWideChar(log[i + 1].chunk, TRUE)


\* C15: nothing of a batch is lost.  A console read is issued only when
\* every byte of the window has been consumed, and each fill converts the
\* whole batch it read, a unit of value 0 included: the bytes served so far
\* followed by the unread rest of the window are the concatenation of the
\* conversions of all batches, in read order.
C15_ServedIsAllBatches ==
    /\ lastFill.kind = "fill" => lastFill.unread = 0
    /\ served \o SubSeq(m_buffer, gptr + 1, Len(m_buffer)) = batchBytes

\* C19: buffer bounds of a fill.  The first read asks for at most
\* WideBufferSize - 2 units and delivers no more than it asked for; the one
\* extra read is issued only when the last unit delivered is a high
\* surrogate and adds at most one unit; the extra unit and the terminator are
\* written at indices of at most WideBufferSize - 1.
C19_BufferBounds ==
    lastFill.kind = "fill" =>
        /\ lastFill.requested <= WideBufferSize - 2
        /\ lastFill.readSize <= lastFill.requested
        /\ lastFill.extraIssued =>
              /\ lastFill.readSize > 0
              /\ IsHighSurrogate(input[rpos - Len(lastFill.batch) + lastFill.readSize])
        /\ Len(lastFill.batch) <= lastFill.readSize + 1
        /\ lastFill.extraIndex <= WideBufferSize - 1
        /\ lastFill.termIndex <= WideBufferSize - 1

\* C19 witness: the first read filled its whole request and ended on a high
\* surrogate, the extra read delivered the low surrogate, and the terminator
\* went to the last index of wideBuffer.
C19_Witness ==
    /\ lastFill.kind = "fill"
    /\ lastFill.readSize = WideBufferSize - 2
    /\ lastFill.extraGot
    /\ lastFill.extraIndex = WideBufferSize - 2
    /\ lastFill.termIndex = WideBufferSize - 1


C13_ScopedRebinding ==
    \A s \in StdStreams :
        LET st == streams[s]
            n == Len(st.events)
        IN  /\ st.fixer = "none" => st.rdbuf = "original"
            /\ st.fixer = "alive" => (st.rdbuf = "m_csb" <=> st.handle = "console")
            /\ st.handle \in {"disk", "pipe"} => st.rdbuf = "original"
            /\ st.fixer = "gone" =>
                  /\ st.rdbuf = "original"
                  /\ (\E i \in 1..n : st.events[i] = "install") =>
                        /\ st.events[n] = "restore"
                        /\ s # "cin" =>
                              /\ st.events[n - 1] = "flush m_csb"
                              /\ ~st.dirty

====
